---- MODULE Spec2Model ----
(***************************************************************************)
(* claude-container.py: a launcher that resolves a session id from its     *)
(* command line, provisions a git worktree for the session when the        *)
(* invocation directory is a git repository, creates the session's         *)
(* container when it is absent and executes the agent inside it.           *)
(*                                                                         *)
(* Two launcher processes run main() concurrently against the same         *)
(* container runtime and the same worktree root; a process that exited     *)
(* may be started again.  Every subprocess.run call is one step.           *)
(***************************************************************************)
EXTENDS Integers, Sequences, FiniteSets, TLC

VARIABLES
    inv,         \* inv[p]: the local variables of main() in launcher process p
    containers,  \* the containers the runtime holds
    worktrees,   \* the worktrees git has registered
    branches,    \* <<repository, branch name>> pairs that exist
    paths,       \* directories that exist under or at the worktree root
    runs         \* number of invocations started so far

vars == <<inv, containers, worktrees, branches, paths, runs>>

(***************************************************************************)
(* Bounds.                                                                 *)
(***************************************************************************)
\* longest command line enumerated by SpecArgs
MaxArgs == 4
\* invocations started in one behaviour of Spec (two at a time)
MaxRuns == 2
\* invocations started in one behaviour of SpecSeq (one after the other)
MaxSeqRuns == 3

Procs == {1, 2}

(***************************************************************************)
(* Optional values: None is <<>>, a present value v is <<v>>.              *)
(***************************************************************************)
None == <<>>
Some(v) == <<v>>

(***************************************************************************)
(* The command line alphabet.                                              *)
(***************************************************************************)
ResumeFlag == "--resume"
SessionIdFlag == "--session-id"
SkipFlag == "--dangerously-skip-permissions"
\* argparse accepts any unambiguous prefix of a long option
SkipAbbrev == "--dangerously-skip"
Separator == "--"
\* an option the launcher does not define
UnknownFlag == "--print"

\* uuid.uuid4() of the n-th invocation: a token no earlier invocation drew
Uuid4(n) == "uuid-" \o ToString(n)

Uuids == {Uuid4(n) : n \in 1..(MaxRuns + MaxSeqRuns)}

\* tokens that do not start with "-": argparse reads them as arguments
PlainTokens == {"", "s1", "s2"} \cup Uuids

Tokens == {ResumeFlag, SessionIdFlag, SkipFlag, SkipAbbrev, Separator,
           UnknownFlag, "", "s1", "s2"}

RECURSIVE SeqsUpTo(_, _)
SeqsUpTo(S, n) ==
    IF n = 0 THEN {<<>>}
    ELSE LET shorter == SeqsUpTo(S, n - 1)
         IN  shorter \cup {Append(s, t) : s \in {x \in shorter : Len(x) = n - 1}, t \in S}

(***************************************************************************)
(* parse_args: argparse.parse_known_args over the three options the        *)
(* launcher defines.  The namespace holds None for an option that was not  *)
(* given; error is argparse's own exit (status 2).                         *)
(***************************************************************************)
EmptyNamespace ==
    [resume |-> None, session_id |-> None,
     dangerously_skip_permissions |-> FALSE, error |-> FALSE]

\* the destination argparse resolves an option token to
OptionDest(t) ==
    CASE t = ResumeFlag -> "resume"
      [] t = SessionIdFlag -> "session_id"
      [] t \in {SkipFlag, SkipAbbrev} -> "dangerously_skip_permissions"
      [] OTHER -> "unknown"

RECURSIVE consume_args(_, _, _, _)
consume_args(argv, i, after_separator, ns) ==
    IF i > Len(argv) THEN ns
    ELSE LET t == argv[i] IN
         IF after_separator \/ t \in PlainTokens
         THEN consume_args(argv, i + 1, after_separator, ns)
         ELSE IF t = Separator
         THEN consume_args(argv, i + 1, TRUE, ns)
         ELSE IF OptionDest(t) \in {"resume", "session_id"}
         THEN IF i + 1 <= Len(argv) /\ argv[i + 1] \in PlainTokens
              THEN consume_args(argv, i + 2, FALSE,
                       IF OptionDest(t) = "resume"
                       THEN [ns EXCEPT !.resume = Some(argv[i + 1])]
                       ELSE [ns EXCEPT !.session_id = Some(argv[i + 1])])
              ELSE [ns EXCEPT !.error = TRUE]
         ELSE IF OptionDest(t) = "dangerously_skip_permissions"
         THEN consume_args(argv, i + 1, FALSE,
                  [ns EXCEPT !.dangerously_skip_permissions = TRUE])
         ELSE consume_args(argv, i + 1, FALSE, ns)

parse_args(argv) == consume_args(argv, 1, FALSE, EmptyNamespace)

\* Python truth value of an optional string: None and "" are false
Truthy(o) == o # None /\ o[1] # ""

\* get_session_info that generates an id without asking for its injection
get_session_info_no_injection(args, fresh) ==
    IF Truthy(args.resume) THEN <<args.resume[1], FALSE>>
    ELSE IF Truthy(args.session_id) THEN <<args.session_id[1], FALSE>>
    ELSE <<fresh, FALSE>>

\* get_session_info: <<session id, whether --session-id must be added>>
get_session_info(args, fresh) ==
    IF Truthy(args.resume) THEN <<args.resume[1], FALSE>>
    ELSE IF Truthy(args.session_id) THEN <<args.session_id[1], FALSE>>
    ELSE <<fresh, TRUE>>

\* container_name_of that keeps the first character of the id only
container_name_of_truncated(session_id) ==
    "claude-session-" \o (IF session_id \in {"s1", "s2"} THEN "s" ELSE session_id)

\* container_name_of giving every session the same name
container_name_of_shared(session_id) == "claude-session"

container_name_of(session_id) == "claude-session-" \o session_id

\* filter_args dropping only the first occurrence of the skip flag
filter_args_first_only(argv) ==
    IF \E i \in DOMAIN argv : argv[i] = SkipFlag
    THEN LET i == CHOOSE i \in DOMAIN argv :
                      /\ argv[i] = SkipFlag
                      /\ \A j \in 1..(i - 1) : argv[j] # SkipFlag
         IN  SubSeq(argv, 1, i - 1) \o SubSeq(argv, i + 1, Len(argv))
    ELSE argv

\* the loop of main that copies sys.argv[1:] without the skip flag
RECURSIVE filter_args(_)
filter_args(argv) ==
    IF argv = <<>> THEN <<>>
    ELSE (IF Head(argv) # SkipFlag THEN <<Head(argv)>> ELSE <<>>)
             \o filter_args(Tail(argv))

\* build_claude_args putting the injected pair in front
build_claude_args_prepend(argv, add_session_id, session_id) ==
    (IF add_session_id THEN <<SessionIdFlag, session_id>> ELSE <<>>)
        \o filter_args(argv)

\* main: the arguments forwarded to the agent
build_claude_args(argv, add_session_id, session_id) ==
    filter_args(argv)
        \o (IF add_session_id THEN <<SessionIdFlag, session_id>> ELSE <<>>)

(***************************************************************************)
(* Configuration read by main(): defaults of the environment variables,    *)
(* the home directory and the invocation directories.                      *)
(***************************************************************************)
base_image == "docker.io/nuhotetotniksvoboden/claudecodeui:latest"
claude_binary == "claude"
container_binary == "podman"
git_worktrees_dir == "/git-worktrees/"
home_dir == "/home/user"

\* invocation directories: two git repositories and one plain directory
GitDirs == {"/repo-a", "/repo-b"}
Dirs == GitDirs \cup {"/plain"}

\* a branch the user already has in /repo-a
ExistingBranches == {<<"/repo-a", "s2">>}

\* str.lower() on the values DEBUG takes here
Lower(s) ==
    CASE s = "TRUE" -> "true"
      [] s = "True" -> "true"
      [] s = "tRuE" -> "true"
      [] s = "YES" -> "yes"
      [] s = "Yes" -> "yes"
      [] s = "yEs" -> "yes"
      [] s = "FALSE" -> "false"
      [] s = "NO" -> "no"
      [] s = "OFF" -> "off"
      [] s = "ON" -> "on"
      [] OTHER -> s

\* debug_mode_of comparing the value as it is spelled
debug_mode_of_case_sensitive(env) ==
    (IF env.DEBUG = None THEN "" ELSE env.DEBUG[1]) \in {"true", "1", "yes"}

\* os.environ.get("DEBUG", "").lower() in ("true", "1", "yes")
debug_mode_of(env) ==
    Lower(IF env.DEBUG = None THEN "" ELSE env.DEBUG[1]) \in {"true", "1", "yes"}

\* os.path.join(worktree_base_dir, branch_name); the base ends with "/"
worktree_dir_of(session_id) == git_worktrees_dir \o session_id

\* worktree_exists that never finds the directory
worktree_exists_never(worktree_dir, existing) == FALSE

\* os.path.exists(worktree_dir), given the directories that exist
worktree_exists(worktree_dir, existing) == worktree_dir \in existing

\* after_container_exists going on to exec whatever the check said
after_container_exists_never_create(returncode) == "execute_in_container"

\* after_container_exists creating whatever the check said
after_container_exists_always_create(returncode) == "create_container"

\* main: "if not container_exists(...)" creates, otherwise goes on to exec
after_container_exists(returncode) ==
    IF returncode = 0 THEN "execute_in_container" ELSE "create_container"

(***************************************************************************)
(* Command Renderer: the argument vectors handed to subprocess.run.        *)
(***************************************************************************)
rev_parse_cmd == <<"git", "rev-parse", "--git-dir">>

worktree_add_cmd(branch_name, worktree_dir) ==
    <<"git", "worktree", "add", "-b", branch_name, worktree_dir>>

exists_cmd(container_name) ==
    <<container_binary, "container", "exists", container_name>>

\* create_cmd of an unprivileged container
create_cmd_unprivileged(container_name, work_dir, target_dir, debug_mode, skip_permissions) ==
    <<container_binary, "run", "-d", "--name", container_name>>
    \o (IF ~debug_mode THEN <<"--quiet", "--log-driver", "none">> ELSE <<>>)
    \o <<"--security-opt", "label=disable",
         "--security-opt", "seccomp=unconfined",
         "--cap-add=all",
         "-v", home_dir \o "/.claude.json:/root/.claude.json:Z",
         "-v", home_dir \o "/.claude/:/root/.claude/:Z",
         "-v", work_dir \o ":" \o target_dir \o ":Z">>
    \o (IF skip_permissions
        THEN <<"-v", "/root/.claude/settings.json:/root/.claude/settings.json:Z",
               "-v", "/bin/claude-hook-pretooluse.sh:/bin/claude-hook-pretooluse.sh:Z">>
        ELSE <<>>)
    \o <<"-w", target_dir, base_image, "sleep", "infinity">>

\* create_cmd with the quiet flags after the mounts
create_cmd_quiet_after_mounts(container_name, work_dir, target_dir, debug_mode, skip_permissions) ==
    <<container_binary, "run", "-d", "--name", container_name>>
    \o <<"--security-opt", "label=disable",
         "--security-opt", "seccomp=unconfined",
         "--cap-add=all",
         "--privileged",
         "-v", home_dir \o "/.claude.json:/root/.claude.json:Z",
         "-v", home_dir \o "/.claude/:/root/.claude/:Z",
         "-v", work_dir \o ":" \o target_dir \o ":Z">>
    \o (IF skip_permissions
        THEN <<"-v", "/root/.claude/settings.json:/root/.claude/settings.json:Z",
               "-v", "/bin/claude-hook-pretooluse.sh:/bin/claude-hook-pretooluse.sh:Z">>
        ELSE <<>>)
    \o (IF ~debug_mode THEN <<"--quiet", "--log-driver", "none">> ELSE <<>>)
    \o <<"-w", target_dir, base_image, "sleep", "infinity">>

\* create_cmd without the hook mount
create_cmd_no_hook(container_name, work_dir, target_dir, debug_mode, skip_permissions) ==
    <<container_binary, "run", "-d", "--name", container_name>>
    \o (IF ~debug_mode THEN <<"--quiet", "--log-driver", "none">> ELSE <<>>)
    \o <<"--security-opt", "label=disable",
         "--security-opt", "seccomp=unconfined",
         "--cap-add=all",
         "--privileged",
         "-v", home_dir \o "/.claude.json:/root/.claude.json:Z",
         "-v", home_dir \o "/.claude/:/root/.claude/:Z",
         "-v", work_dir \o ":" \o target_dir \o ":Z">>
    \o (IF skip_permissions
        THEN <<"-v", "/root/.claude/settings.json:/root/.claude/settings.json:Z">>
        ELSE <<>>)
    \o <<"-w", target_dir, base_image, "sleep", "infinity">>

\* create_cmd mounting the invocation directory whatever the workspace is
create_cmd_identity_mount(container_name, work_dir, target_dir, debug_mode, skip_permissions) ==
    <<container_binary, "run", "-d", "--name", container_name>>
    \o (IF ~debug_mode THEN <<"--quiet", "--log-driver", "none">> ELSE <<>>)
    \o <<"--security-opt", "label=disable",
         "--security-opt", "seccomp=unconfined",
         "--cap-add=all",
         "--privileged",
         "-v", home_dir \o "/.claude.json:/root/.claude.json:Z",
         "-v", home_dir \o "/.claude/:/root/.claude/:Z",
         "-v", target_dir \o ":" \o target_dir \o ":Z">>
    \o (IF skip_permissions
        THEN <<"-v", "/root/.claude/settings.json:/root/.claude/settings.json:Z",
               "-v", "/bin/claude-hook-pretooluse.sh:/bin/claude-hook-pretooluse.sh:Z">>
        ELSE <<>>)
    \o <<"-w", target_dir, base_image, "sleep", "infinity">>

create_cmd(container_name, work_dir, target_dir, debug_mode, skip_permissions) ==
    <<container_binary, "run", "-d", "--name", container_name>>
    \o (IF ~debug_mode THEN <<"--quiet", "--log-driver", "none">> ELSE <<>>)
    \o <<"--security-opt", "label=disable",
         "--security-opt", "seccomp=unconfined",
         "--cap-add=all",
         "--privileged",
         "-v", home_dir \o "/.claude.json:/root/.claude.json:Z",
         "-v", home_dir \o "/.claude/:/root/.claude/:Z",
         "-v", work_dir \o ":" \o target_dir \o ":Z">>
    \o (IF skip_permissions
        THEN <<"-v", "/root/.claude/settings.json:/root/.claude/settings.json:Z",
               "-v", "/bin/claude-hook-pretooluse.sh:/bin/claude-hook-pretooluse.sh:Z">>
        ELSE <<>>)
    \o <<"-w", target_dir, base_image, "sleep", "infinity">>

\* exec_cmd asking for a pseudo-terminal always
exec_cmd_always_tty(container_name, claude_args, isatty) ==
    <<container_binary, "exec", "-i", "-t">>
    \o <<container_name, claude_binary>> \o claude_args

exec_cmd(container_name, claude_args, isatty) ==
    <<container_binary, "exec", "-i">>
    \o (IF isatty THEN <<"-t">> ELSE <<>>)
    \o <<container_name, claude_binary>> \o claude_args

(***************************************************************************)
(* Messages written to stderr.                                             *)
(***************************************************************************)
SkipWarning == "WARNING: Dangerously skip permissions is enabled."
CreatedWorktreeMsg(worktree_dir) == "Created git worktree: " \o worktree_dir
CreatedContainerMsg(container_name) ==
    "Container created successfully: " \o container_name
CreateFailedMsg == "Failed to create container"
ReusingMsg(container_name) ==
    "Container " \o container_name \o " already exists, reusing it"
InterruptedMsg == "Interrupted by user"
UnexpectedMsg == "Unexpected error"
UsageMsg == "usage"

(***************************************************************************)
(* The state of one launcher process: the local variables of main(), the   *)
(* subprocess calls it has issued, what it wrote to stderr and its exit    *)
(* status (None while it runs).                                            *)
(***************************************************************************)
DefaultEnv == [DEBUG |-> None, isatty |-> FALSE, git |-> TRUE, runtime |-> TRUE]

IdleInv ==
    [pc |-> "idle", argv |-> <<>>, env |-> DefaultEnv, current_dir |-> "",
     args |-> EmptyNamespace, session_id |-> "", add_session_id |-> FALSE,
     container_name |-> "", skip_permissions |-> FALSE, work_dir |-> "",
     claude_args |-> <<>>, calls |-> <<>>, stderr |-> <<>>, exit |-> None]

\* one subprocess.run: result is "exit" (returncode is the child's status),
\* "enoent" (the binary could not be launched) or "interrupt" (Ctrl-C)
Call(cmd, result, returncode) ==
    [cmd |-> cmd, result |-> result, returncode |-> returncode]

\* main_except with an exit status that does not report the failure
main_except_exit0(r, call, raised, msgs) ==
    [r EXCEPT !.pc = "exited",
              !.calls = Append(@, call),
              !.stderr = @ \o msgs
                  \o (IF raised = "KeyboardInterrupt"
                      THEN <<InterruptedMsg>>
                      ELSE <<UnexpectedMsg, "Traceback">>),
              !.exit = Some(0)]

\* the except clauses of main: KeyboardInterrupt exits 130, Exception exits 1
main_except(r, call, raised, msgs) ==
    [r EXCEPT !.pc = "exited",
              !.calls = Append(@, call),
              !.stderr = @ \o msgs
                  \o (IF raised = "KeyboardInterrupt"
                      THEN <<InterruptedMsg>>
                      ELSE <<UnexpectedMsg, "Traceback">>),
              !.exit = Some(IF raised = "KeyboardInterrupt" THEN 130 ELSE 1)]

\* main, after the workspace is resolved: the forwarded arguments
main_prepare(r, work_dir, call, msgs) ==
    [r EXCEPT !.pc = "container_exists",
              !.work_dir = work_dir,
              !.calls = @ \o call,
              !.stderr = @ \o msgs,
              !.claude_args =
                  build_claude_args(r.argv, r.add_session_id, r.session_id)]

\* how a subprocess of a binary that is installed can end
Outcomes(faults) == {"exit"} \cup (IF faults THEN {"interrupt"} ELSE {})

ContainerNames == {c.name : c \in containers}

Init ==
    /\ inv = [p \in Procs |-> IdleInv]
    /\ containers = {}
    /\ worktrees = {}
    /\ branches = ExistingBranches
    /\ paths = {}
    /\ runs = 0

(***************************************************************************)
(* main, up to the first subprocess: environment, parse_args,              *)
(* get_session_info, the container name and the skip warning.              *)
(***************************************************************************)
Start(p, cmdlines, dirs, envs, limit) ==
    /\ inv[p].pc = "idle"
    /\ runs < limit
    /\ p = 2 => inv[1].pc # "idle"
    /\ \E argv \in cmdlines, dir \in dirs, env \in envs :
        /\ \A i \in 1..Len(argv) :
               argv[i] \in Uuids => argv[i] \in {Uuid4(n) : n \in 1..runs}
        /\ LET args == parse_args(argv)
               info == get_session_info(args, Uuid4(runs + 1))
               r == [IdleInv EXCEPT !.argv = argv, !.env = env,
                                    !.current_dir = dir, !.args = args]
           IN  inv' = [inv EXCEPT ![p] =
                   IF args.error
                   THEN [r EXCEPT !.pc = "exited", !.stderr = <<UsageMsg>>,
                                  !.exit = Some(2)]
                   ELSE [r EXCEPT
                           !.pc = "is_git_repository",
                           !.session_id = info[1],
                           !.add_session_id = info[2],
                           !.container_name = container_name_of(info[1]),
                           !.skip_permissions = args.dangerously_skip_permissions,
                           !.stderr = IF args.dangerously_skip_permissions
                                      THEN <<SkipWarning>> ELSE <<>>]]
    /\ runs' = runs + 1
    /\ UNCHANGED <<containers, worktrees, branches, paths>>

(***************************************************************************)
(* is_git_repository(current_dir): git rev-parse --git-dir.                *)
(***************************************************************************)
DetectVcs(p, faults) ==
    /\ inv[p].pc = "is_git_repository"
    /\ LET r == inv[p] IN
       \E outcome \in Outcomes(faults) :
          inv' = [inv EXCEPT ![p] =
              IF ~r.env.git
              THEN main_except(r, Call(rev_parse_cmd, "enoent", -1),
                               "FileNotFoundError", <<>>)
              ELSE IF outcome = "interrupt"
              THEN main_except(r, Call(rev_parse_cmd, "interrupt", -1),
                               "KeyboardInterrupt", <<>>)
              ELSE IF r.current_dir \in GitDirs
              THEN [r EXCEPT !.pc = "create_git_worktree",
                             !.calls = Append(@, Call(rev_parse_cmd, "exit", 0))]
              ELSE main_prepare(r, r.current_dir,
                                <<Call(rev_parse_cmd, "exit", 128)>>, <<>>)]
    /\ UNCHANGED <<containers, worktrees, branches, paths, runs>>

\* WorktreeLookup that leaves the worktree alone when the container exists
WorktreeLookup_unless_container(p) ==
    /\ inv[p].pc = "create_git_worktree"
    /\ LET r == inv[p]
           worktree_dir == worktree_dir_of(r.session_id)
       IN  inv' = [inv EXCEPT ![p] =
               IF \/ worktree_exists(worktree_dir, paths)
                  \/ r.container_name \in ContainerNames
               THEN main_prepare(r, worktree_dir, <<>>, <<>>)
               ELSE [r EXCEPT !.pc = "worktree_add"]]
    /\ UNCHANGED <<containers, worktrees, branches, paths, runs>>

(***************************************************************************)
(* create_git_worktree, first half: os.path.exists(worktree_dir).          *)
(***************************************************************************)
WorktreeLookup(p) ==
    /\ inv[p].pc = "create_git_worktree"
    /\ LET r == inv[p]
           worktree_dir == worktree_dir_of(r.session_id)
       IN  inv' = [inv EXCEPT ![p] =
               IF worktree_exists(worktree_dir, paths)
               THEN main_prepare(r, worktree_dir, <<>>, <<>>)
               ELSE [r EXCEPT !.pc = "worktree_add"]]
    /\ UNCHANGED <<containers, worktrees, branches, paths, runs>>

\* WorktreeAdd that falls back to the invocation directory when git refuses
WorktreeAdd_fallback(p, faults) ==
    /\ inv[p].pc = "worktree_add"
    /\ LET r == inv[p]
           branch_name == r.session_id
           worktree_dir == worktree_dir_of(r.session_id)
           cmd == worktree_add_cmd(branch_name, worktree_dir)
           refused == \/ <<r.current_dir, branch_name>> \in branches
                      \/ worktree_dir \in paths
       IN  \E outcome \in Outcomes(faults) :
           IF outcome = "interrupt"
           THEN /\ inv' = [inv EXCEPT ![p] =
                       main_except(r, Call(cmd, "interrupt", -1),
                                   "KeyboardInterrupt", <<>>)]
                /\ paths' = paths \cup {git_worktrees_dir}
                /\ UNCHANGED <<worktrees, branches>>
           ELSE IF refused
           THEN /\ inv' = [inv EXCEPT ![p] =
                       main_prepare(r, r.current_dir,
                                    <<Call(cmd, "exit", 128)>>, <<>>)]
                /\ paths' = paths \cup {git_worktrees_dir}
                /\ UNCHANGED <<worktrees, branches>>
           ELSE /\ inv' = [inv EXCEPT ![p] =
                       main_prepare(r, worktree_dir, <<Call(cmd, "exit", 0)>>,
                                    <<CreatedWorktreeMsg(worktree_dir)>>)]
                /\ paths' = paths \cup {git_worktrees_dir, worktree_dir}
                /\ worktrees' = worktrees \cup
                       {[path |-> worktree_dir, repo |-> r.current_dir,
                         branch |-> branch_name]}
                /\ branches' = branches \cup {<<r.current_dir, branch_name>>}
    /\ UNCHANGED <<containers, runs>>

(***************************************************************************)
(* create_git_worktree, second half: os.makedirs of the base directory,    *)
(* then git worktree add -b <session id> <worktree dir>, which fails when  *)
(* the branch or the directory exists already.                             *)
(***************************************************************************)
WorktreeAdd(p, faults) ==
    /\ inv[p].pc = "worktree_add"
    /\ LET r == inv[p]
           branch_name == r.session_id
           worktree_dir == worktree_dir_of(r.session_id)
           cmd == worktree_add_cmd(branch_name, worktree_dir)
           refused == \/ <<r.current_dir, branch_name>> \in branches
                      \/ worktree_dir \in paths
       IN  \E outcome \in Outcomes(faults) :
           IF outcome = "interrupt"
           THEN /\ inv' = [inv EXCEPT ![p] =
                       main_except(r, Call(cmd, "interrupt", -1),
                                   "KeyboardInterrupt", <<>>)]
                /\ paths' = paths \cup {git_worktrees_dir}
                /\ UNCHANGED <<worktrees, branches>>
           ELSE IF refused
           THEN /\ inv' = [inv EXCEPT ![p] =
                       main_except(r, Call(cmd, "exit", 128),
                                   "CalledProcessError", <<>>)]
                /\ paths' = paths \cup {git_worktrees_dir}
                /\ UNCHANGED <<worktrees, branches>>
           ELSE /\ inv' = [inv EXCEPT ![p] =
                       main_prepare(r, worktree_dir, <<Call(cmd, "exit", 0)>>,
                                    <<CreatedWorktreeMsg(worktree_dir)>>)]
                /\ paths' = paths \cup {git_worktrees_dir, worktree_dir}
                /\ worktrees' = worktrees \cup
                       {[path |-> worktree_dir, repo |-> r.current_dir,
                         branch |-> branch_name]}
                /\ branches' = branches \cup {<<r.current_dir, branch_name>>}
    /\ UNCHANGED <<containers, runs>>

\* CheckContainer that waits while another invocation is creating that name
CheckContainer_locked(p, faults) ==
    /\ inv[p].pc = "container_exists"
    /\ \A o \in Procs \ {p} :
           ~(inv[o].pc = "create_container"
                 /\ inv[o].container_name = inv[p].container_name)
    /\ LET r == inv[p]
           cmd == exists_cmd(r.container_name)
       IN  \E outcome \in Outcomes(faults) :
           inv' = [inv EXCEPT ![p] =
               IF ~r.env.runtime
               THEN main_except(r, Call(cmd, "enoent", -1),
                                "FileNotFoundError", <<>>)
               ELSE IF outcome = "interrupt"
               THEN main_except(r, Call(cmd, "interrupt", -1),
                                "KeyboardInterrupt", <<>>)
               ELSE LET returncode ==
                            IF r.container_name \in ContainerNames THEN 0 ELSE 1
                    IN  [r EXCEPT !.pc = after_container_exists(returncode),
                                  !.calls = Append(@, Call(cmd, "exit", returncode))]]
    /\ UNCHANGED <<containers, worktrees, branches, paths, runs>>

\* CheckContainer that asks the runtime only about names it has not seen
CheckContainer_cached(p, faults) ==
    /\ inv[p].pc = "container_exists"
    /\ LET r == inv[p]
           cmd == exists_cmd(r.container_name)
       IN  \E outcome \in Outcomes(faults) :
           inv' = [inv EXCEPT ![p] =
               IF r.container_name \in ContainerNames
               THEN [r EXCEPT !.pc = "execute_in_container"]
               ELSE IF ~r.env.runtime
               THEN main_except(r, Call(cmd, "enoent", -1),
                                "FileNotFoundError", <<>>)
               ELSE IF outcome = "interrupt"
               THEN main_except(r, Call(cmd, "interrupt", -1),
                                "KeyboardInterrupt", <<>>)
               ELSE [r EXCEPT !.pc = after_container_exists(1),
                              !.calls = Append(@, Call(cmd, "exit", 1))]]
    /\ UNCHANGED <<containers, worktrees, branches, paths, runs>>

\* CheckContainer that takes a runtime it cannot launch for "absent"
CheckContainer_missing_is_absent(p, faults) ==
    /\ inv[p].pc = "container_exists"
    /\ LET r == inv[p]
           cmd == exists_cmd(r.container_name)
       IN  \E outcome \in Outcomes(faults) :
           inv' = [inv EXCEPT ![p] =
               IF ~r.env.runtime
               THEN [r EXCEPT !.pc = "create_container",
                              !.calls = Append(@, Call(cmd, "enoent", -1))]
               ELSE IF outcome = "interrupt"
               THEN main_except(r, Call(cmd, "interrupt", -1),
                                "KeyboardInterrupt", <<>>)
               ELSE LET returncode ==
                            IF r.container_name \in ContainerNames THEN 0 ELSE 1
                    IN  [r EXCEPT !.pc = after_container_exists(returncode),
                                  !.calls = Append(@, Call(cmd, "exit", returncode))]]
    /\ UNCHANGED <<containers, worktrees, branches, paths, runs>>

(***************************************************************************)
(* container_exists: <runtime> container exists <name>; status 0 exactly   *)
(* when the runtime holds a container of that name.                        *)
(***************************************************************************)
CheckContainer(p, faults) ==
    /\ inv[p].pc = "container_exists"
    /\ LET r == inv[p]
           cmd == exists_cmd(r.container_name)
       IN  \E outcome \in Outcomes(faults) :
           inv' = [inv EXCEPT ![p] =
               IF ~r.env.runtime
               THEN main_except(r, Call(cmd, "enoent", -1),
                                "FileNotFoundError", <<>>)
               ELSE IF outcome = "interrupt"
               THEN main_except(r, Call(cmd, "interrupt", -1),
                                "KeyboardInterrupt", <<>>)
               ELSE LET returncode ==
                            IF r.container_name \in ContainerNames THEN 0 ELSE 1
                    IN  [r EXCEPT !.pc = after_container_exists(returncode),
                                  !.calls = Append(@, Call(cmd, "exit", returncode))]]
    /\ UNCHANGED <<containers, worktrees, branches, paths, runs>>

\* CreateContainer that goes on to exec when the create failed
CreateContainer_failure_ignored(p, faults) ==
    /\ inv[p].pc = "create_container"
    /\ LET r == inv[p]
           cmd == create_cmd(r.container_name, r.work_dir, r.current_dir,
                             debug_mode_of(r.env), r.skip_permissions)
       IN  \E outcome \in Outcomes(faults) \cup (IF faults THEN {"fail"} ELSE {}) :
           IF outcome = "interrupt"
           THEN /\ inv' = [inv EXCEPT ![p] =
                       main_except(r, Call(cmd, "interrupt", -1),
                                   "KeyboardInterrupt", <<>>)]
                /\ UNCHANGED containers
           ELSE IF outcome = "fail" \/ r.container_name \in ContainerNames
           THEN /\ inv' = [inv EXCEPT ![p] =
                       [r EXCEPT !.pc = "execute_in_container",
                                 !.calls = Append(@, Call(cmd, "exit", 125)),
                                 !.stderr = Append(@, CreateFailedMsg)]]
                /\ UNCHANGED containers
           ELSE /\ inv' = [inv EXCEPT ![p] =
                       [r EXCEPT !.pc = "execute_in_container",
                                 !.calls = Append(@, Call(cmd, "exit", 0)),
                                 !.stderr = Append(@,
                                     CreatedContainerMsg(r.container_name))]]
                /\ containers' = containers \cup
                       {[name |-> r.container_name, work_dir |-> r.work_dir,
                         target_dir |-> r.current_dir,
                         skip_permissions |-> r.skip_permissions,
                         running |-> TRUE]}
    /\ UNCHANGED <<worktrees, branches, paths, runs>>

(***************************************************************************)
(* create_container: <runtime> run -d --name <name> ... sleep infinity.    *)
(* The runtime refuses a name it already holds and may fail for reasons    *)
(* of its own (status 125); a failure is re-raised to main.                *)
(***************************************************************************)
CreateContainer(p, faults) ==
    /\ inv[p].pc = "create_container"
    /\ LET r == inv[p]
           cmd == create_cmd(r.container_name, r.work_dir, r.current_dir,
                             debug_mode_of(r.env), r.skip_permissions)
       IN  \E outcome \in Outcomes(faults) \cup (IF faults THEN {"fail"} ELSE {}) :
           IF outcome = "interrupt"
           THEN /\ inv' = [inv EXCEPT ![p] =
                       main_except(r, Call(cmd, "interrupt", -1),
                                   "KeyboardInterrupt", <<>>)]
                /\ UNCHANGED containers
           ELSE IF outcome = "fail" \/ r.container_name \in ContainerNames
           THEN /\ inv' = [inv EXCEPT ![p] =
                       main_except(r, Call(cmd, "exit", 125),
                                   "CalledProcessError", <<CreateFailedMsg>>)]
                /\ UNCHANGED containers
           ELSE /\ inv' = [inv EXCEPT ![p] =
                       [r EXCEPT !.pc = "execute_in_container",
                                 !.calls = Append(@, Call(cmd, "exit", 0)),
                                 !.stderr = Append(@,
                                     CreatedContainerMsg(r.container_name))]]
                /\ containers' = containers \cup
                       {[name |-> r.container_name, work_dir |-> r.work_dir,
                         target_dir |-> r.current_dir,
                         skip_permissions |-> r.skip_permissions,
                         running |-> TRUE]}
    /\ UNCHANGED <<worktrees, branches, paths, runs>>

(***************************************************************************)
(* The rest of main: the "already exists" notification, then               *)
(* execute_in_container (<runtime> exec -i [-t] <name> <agent> <args>),    *)
(* whose return value main drops, then sys.exit(0).                        *)
(***************************************************************************)
\* exit statuses the exec child is let to end with
ExecStatuses(faults) == {0} \cup (IF faults THEN {42} ELSE {})

\* the runtime opens no exec session in a container that is not running:
\* its exec then ends with a status of its own
ChildStatuses(container_name, faults) ==
    IF \E c \in containers : c.name = container_name /\ ~c.running
    THEN {255}
    ELSE ExecStatuses(faults)

\* the status main passes to sys.exit after execute_in_container returned
main_exit_status(returned) == 0

\* Exec that removes the container once the agent has ended
Exec_then_remove(p, faults) ==
    /\ inv[p].pc = "execute_in_container"
    /\ LET r == inv[p]
           cmd == exec_cmd(r.container_name, r.claude_args, r.env.isatty)
       IN  \E outcome \in Outcomes(faults), status \in ChildStatuses(r.container_name, faults) :
           LET interrupted == outcome = "interrupt"
               returned == IF interrupted THEN 130 ELSE status
           IN  inv' = [inv EXCEPT ![p] =
                   [r EXCEPT
                       !.pc = "exited",
                       !.calls = Append(@,
                           IF interrupted THEN Call(cmd, "interrupt", -1)
                           ELSE Call(cmd, "exit", status)),
                       !.stderr = @ \o <<ReusingMsg(r.container_name)>>
                           \o (IF interrupted THEN <<InterruptedMsg>> ELSE <<>>),
                       !.exit = Some(main_exit_status(returned))]]
    /\ containers' = {c \in containers : c.name # inv[p].container_name}
    /\ UNCHANGED <<worktrees, branches, paths, runs>>

Exec(p, faults) ==
    /\ inv[p].pc = "execute_in_container"
    /\ LET r == inv[p]
           cmd == exec_cmd(r.container_name, r.claude_args, r.env.isatty)
       IN  \E outcome \in Outcomes(faults), status \in ChildStatuses(r.container_name, faults) :
           LET interrupted == outcome = "interrupt"
               returned == IF interrupted THEN 130 ELSE status
           IN  inv' = [inv EXCEPT ![p] =
                   [r EXCEPT
                       !.pc = "exited",
                       !.calls = Append(@,
                           IF interrupted THEN Call(cmd, "interrupt", -1)
                           ELSE Call(cmd, "exit", status)),
                       !.stderr = @ \o <<ReusingMsg(r.container_name)>>
                           \o (IF interrupted THEN <<InterruptedMsg>> ELSE <<>>),
                       !.exit = Some(main_exit_status(returned))]]
    /\ UNCHANGED <<containers, worktrees, branches, paths, runs>>

(***************************************************************************)
(* A process that exited is gone; its slot takes the next invocation.      *)
(***************************************************************************)
Restart(p, limit) ==
    /\ inv[p].pc = "exited"
    /\ runs < limit
    /\ inv' = [inv EXCEPT ![p] = IdleInv]
    /\ UNCHANGED <<containers, worktrees, branches, paths, runs>>

(***************************************************************************)
(* Spec: up to MaxRuns invocations, two at a time, with every outcome of   *)
(* the subprocesses.                                                       *)
(***************************************************************************)
ScenarioArgs ==
    {<<>>,
     <<SessionIdFlag, "s1">>,
     <<SessionIdFlag, "s2">>,
     <<SkipFlag, ResumeFlag, "s1">>}

ScenarioEnvs ==
    {DefaultEnv,
     [DefaultEnv EXCEPT !.git = FALSE],
     [DefaultEnv EXCEPT !.runtime = FALSE]}

Next ==
    \E p \in Procs :
        \/ Start(p, ScenarioArgs, Dirs, ScenarioEnvs, MaxRuns)
        \/ DetectVcs(p, TRUE)
        \/ WorktreeLookup(p)
        \/ WorktreeAdd(p, TRUE)
        \/ CheckContainer(p, TRUE)
        \/ CreateContainer(p, TRUE)
        \/ Exec(p, TRUE)
        \/ Restart(p, MaxRuns)

Spec == Init /\ [][Next]_vars

(***************************************************************************)
(* SpecLive: Spec with every subprocess call returning: a launcher that    *)
(* can take its next step takes it eventually.                             *)
(***************************************************************************)
Step(p) ==
    \/ DetectVcs(p, TRUE)
    \/ WorktreeLookup(p)
    \/ WorktreeAdd(p, TRUE)
    \/ CheckContainer(p, TRUE)
    \/ CreateContainer(p, TRUE)
    \/ Exec(p, TRUE)

SpecLive == Spec /\ \A p \in Procs : WF_vars(Step(p))

(***************************************************************************)
(* SpecSeq: up to MaxSeqRuns invocations, each started after the one       *)
(* before it exited, with git and the runtime installed and no interrupt.  *)
(* The two slots take turns, so the state shows the last two invocations.  *)
(***************************************************************************)
NoneRunning == \A q \in Procs : inv[q].pc \in {"idle", "exited"}

StartAlone(p) ==
    /\ NoneRunning
    /\ Start(p, ScenarioArgs, Dirs, {DefaultEnv}, MaxSeqRuns)

NextSeq ==
    \E p \in Procs :
        \/ StartAlone(p)
        \/ DetectVcs(p, FALSE)
        \/ WorktreeLookup(p)
        \/ WorktreeAdd(p, FALSE)
        \/ CheckContainer(p, FALSE)
        \/ CreateContainer(p, FALSE)
        \/ Exec(p, FALSE)
        \/ Restart(p, MaxSeqRuns)

SpecSeq == Init /\ [][NextSeq]_vars

(***************************************************************************)
(* SpecArgs: one invocation over every command line of at most MaxArgs     *)
(* tokens, all subprocesses succeeding.                                    *)
(***************************************************************************)
CommandLines == SeqsUpTo(Tokens, MaxArgs)

NextArgs ==
    \/ Start(1, CommandLines, {"/repo-a", "/plain"}, {DefaultEnv}, 1)
    \/ DetectVcs(1, FALSE)
    \/ WorktreeLookup(1)
    \/ WorktreeAdd(1, FALSE)
    \/ CheckContainer(1, FALSE)
    \/ CreateContainer(1, FALSE)
    \/ Exec(1, FALSE)

SpecArgs == Init /\ [][NextArgs]_vars

(***************************************************************************)
(* SpecEnv: one invocation in every environment: each value of DEBUG,      *)
(* standard input a terminal or not; all subprocesses succeeding.          *)
(***************************************************************************)
DebugValues ==
    {None} \cup
    {Some(v) : v \in {"", "true", "TRUE", "True", "tRuE", "1", "yes", "YES",
                      "Yes", "yEs", "false", "FALSE", "0", "no", "NO", "off",
                      "OFF", "on", "ON", "2", "y", "t", "true "}}

EnvChoices ==
    {[DefaultEnv EXCEPT !.DEBUG = d, !.isatty = t] :
         d \in DebugValues, t \in BOOLEAN}

NextEnv ==
    \/ Start(1, ScenarioArgs, Dirs, EnvChoices, 1)
    \/ DetectVcs(1, FALSE)
    \/ WorktreeLookup(1)
    \/ WorktreeAdd(1, FALSE)
    \/ CheckContainer(1, FALSE)
    \/ CreateContainer(1, FALSE)
    \/ Exec(1, FALSE)

SpecEnv == Init /\ [][NextEnv]_vars

(***************************************************************************)
(* SpecStopped: one invocation on a host where an earlier invocation left  *)
(* the container of session s1, which has been stopped since.              *)
(***************************************************************************)
InitStopped ==
    /\ inv = [p \in Procs |-> IdleInv]
    /\ containers = {[name |-> container_name_of("s1"), work_dir |-> "/plain",
                      target_dir |-> "/plain", skip_permissions |-> FALSE,
                      running |-> FALSE]}
    /\ worktrees = {}
    /\ branches = ExistingBranches
    /\ paths = {}
    /\ runs = 0

SpecStopped == InitStopped /\ [][NextEnv]_vars

(***************************************************************************)
(* Reading the record of an invocation: the kinds of subprocess calls and  *)
(* the operands of their argument vectors.                                 *)
(***************************************************************************)
IsWorktreeAddCall(c) == c.cmd[1] = "git" /\ c.cmd[2] = "worktree"
IsExistsCall(c) == c.cmd[1] = container_binary /\ c.cmd[2] = "container"
IsCreateCall(c) == c.cmd[1] = container_binary /\ c.cmd[2] = "run"
IsExecCall(c) == c.cmd[1] = container_binary /\ c.cmd[2] = "exec"

NumCalls(r, Kind(_)) == Len(SelectSeq(r.calls, Kind))

\* the container name operand of each runtime call
ExistsTarget(c) == c.cmd[4]
CreateTarget(c) == c.cmd[5]
ExecNameAt(c) == IF c.cmd[4] = "-t" THEN 5 ELSE 4
ExecTarget(c) == c.cmd[ExecNameAt(c)]
\* what follows the agent binary in an exec vector
Forwarded(c) == SubSeq(c.cmd, ExecNameAt(c) + 2, Len(c.cmd))

Wrote(r, msg) == \E j \in DOMAIN r.stderr : r.stderr[j] = msg

\* the existence check of this invocation reported the container present
FoundContainer(r) ==
    \E i \in DOMAIN r.calls :
        /\ IsExistsCall(r.calls[i])
        /\ r.calls[i].result = "exit"
        /\ r.calls[i].returncode = 0

(***************************************************************************)
(* C1: whenever exec was issued and its child ended with exit code c, the  *)
(* launcher exits with exactly c.                                          *)
(***************************************************************************)
C1_ExitCodeIsChildExitCode ==
    \A p \in Procs :
        LET r == inv[p] IN
        \A i \in DOMAIN r.calls :
            (r.pc = "exited" /\ IsExecCall(r.calls[i]) /\ r.calls[i].result = "exit")
                => r.exit = Some(r.calls[i].returncode)

(***************************************************************************)
(* C2: when the existence check reported absent and the create call        *)
(* returned non-zero, the launcher has exited with a non-zero code, has    *)
(* written the container-creation-failure message and has issued no exec.  *)
(***************************************************************************)
CreateFailedAt(r, i) ==
    /\ i > 1
    /\ IsExistsCall(r.calls[i - 1])
    /\ r.calls[i - 1].result = "exit"
    /\ r.calls[i - 1].returncode # 0
    /\ IsCreateCall(r.calls[i])
    /\ r.calls[i].result = "exit"
    /\ r.calls[i].returncode # 0

C2_CreateFailureIsFatal ==
    \A p \in Procs :
        LET r == inv[p] IN
        \A i \in DOMAIN r.calls :
            CreateFailedAt(r, i) =>
                /\ r.pc = "exited"
                /\ r.exit # None
                /\ r.exit[1] # 0
                /\ Wrote(r, CreateFailedMsg)
                /\ NumCalls(r, IsExecCall) = 0

C2_Witness ==
    \E p \in Procs : \E i \in DOMAIN inv[p].calls : CreateFailedAt(inv[p], i)

(***************************************************************************)
(* C3: when the existence check returned 0, the invocation issues no       *)
(* create call and its next and only further runtime call is one exec      *)
(* against the container name that was checked.                            *)
(***************************************************************************)
C3_ExistingContainerIsReused ==
    \A p \in Procs :
        LET r == inv[p] IN
        \A i \in DOMAIN r.calls :
            (IsExistsCall(r.calls[i]) /\ r.calls[i].result = "exit"
                 /\ r.calls[i].returncode = 0)
            => /\ NumCalls(r, IsCreateCall) = 0
               /\ r.pc \in {"execute_in_container", "exited"}
               /\ r.pc = "execute_in_container" => Len(r.calls) = i
               /\ r.pc = "exited" =>
                     /\ Len(r.calls) = i + 1
                     /\ IsExecCall(r.calls[i + 1])
                     /\ ExecTarget(r.calls[i + 1]) = ExistsTarget(r.calls[i])
                     /\ NumCalls(r, IsExecCall) = 1

C3_Witness ==
    \E p \in Procs :
        /\ inv[p].pc = "exited"
        /\ FoundContainer(inv[p])
        /\ NumCalls(inv[p], IsExecCall) = 1

(***************************************************************************)
(* C4: an invocation with an explicit session id whose container exists    *)
(* issues no create call and exactly one exec call and leaves the set of   *)
(* containers as it found it, so a second such invocation finds and        *)
(* leaves what the first one left.                                         *)
(***************************************************************************)
Reusing(r) == ~r.add_session_id /\ FoundContainer(r)

C4_ReuseIsIdempotent ==
    [][\A p \in Procs :
          (inv'[p] # inv[p] /\ Reusing(inv'[p])) =>
              /\ containers' = containers
              /\ NumCalls(inv'[p], IsCreateCall) = 0
              /\ inv'[p].pc = "exited" => NumCalls(inv'[p], IsExecCall) = 1]_vars

\* two successive invocations with the same explicit session id, both reusing
C4_Witness ==
    /\ runs = MaxSeqRuns
    /\ inv[1].pc = "exited" /\ inv[2].pc = "exited"
    /\ Reusing(inv[1]) /\ Reusing(inv[2])
    /\ inv[1].session_id = inv[2].session_id
    /\ NumCalls(inv[1], IsExecCall) = 1 /\ NumCalls(inv[2], IsExecCall) = 1

(***************************************************************************)
(* C5: for a command line with neither a resume nor a session-id flag,     *)
(* the session id G is freshly generated, the pair (--session-id, G) ends  *)
(* the forwarded arguments and G occurs in them once, and the existence    *)
(* check, the create and the exec all name "claude-session-" + G.          *)
(***************************************************************************)
Range(seq) == {seq[i] : i \in DOMAIN seq}

NoSessionFlags(argv) == Range(argv) \cap {ResumeFlag, SessionIdFlag} = {}

Occurrences(seq, x) == Cardinality({i \in DOMAIN seq : seq[i] = x})

C5_GeneratedIdInjectedOnce ==
    \A p \in Procs :
        LET r == inv[p]
            G == r.session_id
        IN  (r.pc # "idle" /\ NoSessionFlags(r.argv)) =>
                /\ r.args.error = FALSE
                /\ G \in Uuids \ Range(r.argv)
                /\ \A i \in DOMAIN r.calls :
                    LET c == r.calls[i] IN
                    /\ IsExistsCall(c) => ExistsTarget(c) = "claude-session-" \o G
                    /\ IsCreateCall(c) => CreateTarget(c) = "claude-session-" \o G
                    /\ IsExecCall(c) =>
                        LET fwd == Forwarded(c) IN
                        /\ ExecTarget(c) = "claude-session-" \o G
                        /\ Len(fwd) >= 2
                        /\ fwd[Len(fwd) - 1] = SessionIdFlag
                        /\ fwd[Len(fwd)] = G
                        /\ Occurrences(fwd, G) = 1

C5_Witness ==
    \E p \in Procs :
        /\ inv[p].pc = "exited"
        /\ NoSessionFlags(inv[p].argv)
        /\ Len(inv[p].argv) >= 2
        /\ NumCalls(inv[p], IsExistsCall) = 1
        /\ NumCalls(inv[p], IsCreateCall) = 1
        /\ NumCalls(inv[p], IsExecCall) = 1

(***************************************************************************)
(* C6: when the command line carries --resume X, whatever X is, no         *)
(* --session-id pair is injected and the container name is                 *)
(* "claude-session-" + X.                                                  *)
(***************************************************************************)
C6_ResumeValueIsSessionId ==
    \A p \in Procs :
        LET r == inv[p] IN
        (r.pc # "idle" /\ ~r.args.error /\ r.args.resume # None) =>
            /\ ~r.add_session_id
            /\ r.container_name = "claude-session-" \o r.args.resume[1]
            /\ \A i \in DOMAIN r.calls :
                   IsExecCall(r.calls[i]) =>
                       Len(Forwarded(r.calls[i])) <= Len(r.argv)

(***************************************************************************)
(* C7: when the command line carries --session-id Y and no resume flag,    *)
(* whatever Y is, the session id is Y, no --session-id pair is injected    *)
(* and the forwarded arguments are the original arguments.                 *)
(***************************************************************************)
C7_ExplicitValueIsSessionId ==
    \A p \in Procs :
        LET r == inv[p] IN
        (r.pc # "idle" /\ ~r.args.error /\ r.args.resume = None
             /\ r.args.session_id # None) =>
            /\ r.session_id = r.args.session_id[1]
            /\ ~r.add_session_id
            /\ \A i \in DOMAIN r.calls :
                   IsExecCall(r.calls[i]) => Forwarded(r.calls[i]) = r.argv

(***************************************************************************)
(* C8: no exec vector contains the skip-permission-checks flag, however    *)
(* often the command line carried it and whatever session flags came       *)
(* with it.                                                                *)
(***************************************************************************)
C8_SkipFlagNeverForwarded ==
    \A p \in Procs :
        /\ SkipFlag \notin Range(inv[p].claude_args)
        /\ \A i \in DOMAIN inv[p].calls :
               IsExecCall(inv[p].calls[i]) =>
                   SkipFlag \notin Range(inv[p].calls[i].cmd)

C8_Witness ==
    \E p \in Procs :
        /\ Occurrences(inv[p].argv, SkipFlag) >= 2
        /\ inv[p].args.resume # None \/ inv[p].args.session_id # None
        /\ NumCalls(inv[p], IsExecCall) = 1

(***************************************************************************)
(* C9: the forwarded arguments are the original arguments without the      *)
(* skip flag, every other argument kept in place and in number, followed   *)
(* by nothing or by the injected pair (--session-id, id).                  *)
(***************************************************************************)
NotSkipFlag(t) == t # SkipFlag

C9_ForwardedIsOriginalWithoutSkipFlag ==
    \A p \in Procs :
        LET r == inv[p] IN
        \A i \in DOMAIN r.calls :
            IsExecCall(r.calls[i]) =>
                \E suffix \in {<<>>, <<SessionIdFlag, r.session_id>>} :
                    Forwarded(r.calls[i]) = SelectSeq(r.argv, NotSkipFlag) \o suffix

C9_Witness ==
    \E p \in Procs :
        LET r == inv[p] IN
        /\ NumCalls(r, IsExecCall) = 1
        /\ r.add_session_id
        /\ Len(r.argv) >= 3
        /\ r.argv[2] = SkipFlag
        /\ r.argv[1] = r.argv[3]

(***************************************************************************)
(* C10: in a git repository, an invocation that finds no directory         *)
(* <worktree root>/<S> issues one git worktree add -b S <root>/<S>, and    *)
(* when that succeeds exactly one worktree, named S and on branch S,       *)
(* exists more than before and the created-worktree notification is        *)
(* written once; an invocation that finds the directory issues no          *)
(* command, creates nothing, writes no notification and resolves to the    *)
(* same path.                                                              *)
(***************************************************************************)
C10_WorktreeCreatedOnce ==
    [][\A p \in Procs :
          LET r == inv[p]
              r2 == inv'[p]
              S == r.session_id
              dir == git_worktrees_dir \o S
          IN  /\ (r2 # r /\ r.pc = "create_git_worktree" /\ dir \in paths) =>
                    /\ r2.pc = "container_exists"
                    /\ r2.work_dir = dir
                    /\ r2.calls = r.calls
                    /\ r2.stderr = r.stderr
                    /\ worktrees' = worktrees /\ paths' = paths
                    /\ branches' = branches
              /\ (r2 # r /\ r.pc = "create_git_worktree" /\ dir \notin paths) =>
                    /\ r2.pc = "worktree_add"
                    /\ r2.calls = r.calls
              /\ (r2 # r /\ r.pc = "worktree_add") =>
                    /\ Len(r2.calls) = Len(r.calls) + 1
                    /\ r2.calls[Len(r2.calls)].cmd =
                           <<"git", "worktree", "add", "-b", S, dir>>
                    /\ r2.calls[Len(r2.calls)].returncode = 0 =>
                          /\ dir \notin paths /\ dir \in paths'
                          /\ worktrees' \ worktrees =
                                 {[path |-> dir, repo |-> r.current_dir, branch |-> S]}
                          /\ worktrees \subseteq worktrees'
                          /\ <<r.current_dir, S>> \notin branches
                          /\ branches' = branches \cup {<<r.current_dir, S>>}
                          /\ paths' \ paths \subseteq {git_worktrees_dir, dir}
                          /\ r2.work_dir = dir
                          /\ r2.stderr = Append(r.stderr, "Created git worktree: " \o dir)
                    /\ r2.calls[Len(r2.calls)].returncode # 0 =>
                          /\ worktrees' = worktrees
                          /\ r2.stderr # Append(r.stderr, "Created git worktree: " \o dir)
              /\ (r2 # r /\ r.pc \notin {"create_git_worktree", "worktree_add"}) =>
                    /\ worktrees' = worktrees /\ paths' = paths
                    /\ r.pc \notin {"idle", "exited"} =>
                          /\ NumCalls(r2, IsWorktreeAddCall)
                                 = NumCalls(r, IsWorktreeAddCall)
                          /\ Occurrences(r2.stderr, "Created git worktree: " \o dir)
                                 = Occurrences(r.stderr, "Created git worktree: " \o dir)]_vars

\* a later invocation with S resolved to the worktree an earlier one created
C10_Witness ==
    \E p \in Procs :
        LET r == inv[p]
            dir == git_worktrees_dir \o r.session_id
        IN  /\ r.pc = "exited"
            /\ r.current_dir \in GitDirs
            /\ r.work_dir = dir
            /\ NumCalls(r, IsWorktreeAddCall) = 0
            /\ \E w \in worktrees : w.path = dir /\ w.branch = r.session_id

(***************************************************************************)
(* C11: when git worktree add did not succeed, the launcher has exited     *)
(* with a non-zero status, that call is the last one it issued, so no      *)
(* existence check, create or exec follows, and the invocation directory   *)
(* was not taken as the workspace.                                         *)
(***************************************************************************)
WorktreeAddFailedAt(r, i) ==
    /\ IsWorktreeAddCall(r.calls[i])
    /\ ~(r.calls[i].result = "exit" /\ r.calls[i].returncode = 0)

C11_WorktreeFailureAborts ==
    \A p \in Procs :
        LET r == inv[p] IN
        \A i \in DOMAIN r.calls :
            WorktreeAddFailedAt(r, i) =>
                /\ r.pc = "exited"
                /\ r.exit # None
                /\ r.exit[1] # 0
                /\ i = Len(r.calls)
                /\ NumCalls(r, IsExistsCall) = 0
                /\ NumCalls(r, IsCreateCall) = 0
                /\ NumCalls(r, IsExecCall) = 0
                /\ r.work_dir # r.current_dir

\* git refused the worktree: the branch of that name existed already
C11_Witness ==
    \E p \in Procs :
        LET r == inv[p] IN
        /\ r.current_dir \in GitDirs
        /\ \E i \in DOMAIN r.calls :
               /\ WorktreeAddFailedAt(r, i)
               /\ r.calls[i].result = "exit"
               /\ r.calls[i].returncode = 128

(***************************************************************************)
(* C12: no two distinct session ids are bound to the same workspace        *)
(* directory: two containers of different sessions never mount the same    *)
(* workspace.                                                              *)
(***************************************************************************)
C12_WorkspaceExclusive ==
    \A c1, c2 \in containers :
        c1.name # c2.name => c1.work_dir # c2.work_dir

(***************************************************************************)
(* C13: an invocation that was interrupted during one of its subprocess    *)
(* calls (git rev-parse, git worktree add, the existence check, the        *)
(* create or the exec) has exited with status 130.                         *)
(***************************************************************************)
C13_InterruptExits130 ==
    \A p \in Procs :
        LET r == inv[p] IN
        \A i \in DOMAIN r.calls :
            r.calls[i].result = "interrupt" =>
                /\ r.pc = "exited"
                /\ r.exit = Some(130)

(***************************************************************************)
(* C14: when the container runtime binary could not be launched, the       *)
(* launcher has reported the error and exited with status 1, and it has    *)
(* issued no create and no exec call.                                      *)
(***************************************************************************)
RuntimeMissingAt(r, i) ==
    /\ r.calls[i].cmd[1] = container_binary
    /\ r.calls[i].result = "enoent"

C14_MissingRuntimeIsFatal ==
    \A p \in Procs :
        LET r == inv[p] IN
        \A i \in DOMAIN r.calls :
            RuntimeMissingAt(r, i) =>
                /\ r.pc = "exited"
                /\ r.exit = Some(1)
                /\ Wrote(r, UnexpectedMsg)
                /\ i = Len(r.calls)
                /\ NumCalls(r, IsCreateCall) = 0
                /\ NumCalls(r, IsExecCall) = 0

C14_Witness ==
    \E p \in Procs :
        LET r == inv[p] IN
        /\ ~r.env.runtime
        /\ \E i \in DOMAIN r.calls :
               RuntimeMissingAt(r, i) /\ IsExistsCall(r.calls[i])

(***************************************************************************)
(* C15: when the existence check returned non-zero, the invocation has     *)
(* not stopped there: its next call is the one create it issues, for the   *)
(* name that was checked, and when that create succeeded the exec          *)
(* follows.                                                                *)
(***************************************************************************)
ReportedAbsentAt(r, i) ==
    /\ IsExistsCall(r.calls[i])
    /\ r.calls[i].result = "exit"
    /\ r.calls[i].returncode # 0

C15_AbsentLeadsToCreate ==
    \A p \in Procs :
        LET r == inv[p] IN
        \A i \in DOMAIN r.calls :
            ReportedAbsentAt(r, i) =>
                /\ r.pc \in {"create_container", "execute_in_container", "exited"}
                /\ r.pc = "create_container" => Len(r.calls) = i
                /\ r.pc # "create_container" =>
                      /\ Len(r.calls) > i
                      /\ IsCreateCall(r.calls[i + 1])
                      /\ CreateTarget(r.calls[i + 1]) = ExistsTarget(r.calls[i])
                      /\ NumCalls(r, IsCreateCall) = 1
                      /\ (r.calls[i + 1].result = "exit"
                              /\ r.calls[i + 1].returncode = 0) =>
                            /\ r.pc = "execute_in_container" =>
                                  Len(r.calls) = i + 1
                            /\ r.pc = "exited" =>
                                  /\ Len(r.calls) = i + 2
                                  /\ IsExecCall(r.calls[i + 2])
                                  /\ ExecTarget(r.calls[i + 2])
                                         = ExistsTarget(r.calls[i])

\* absent, created, executed
C15_Witness ==
    \E p \in Procs :
        LET r == inv[p] IN
        /\ r.pc = "exited"
        /\ \E i \in DOMAIN r.calls :
               /\ ReportedAbsentAt(r, i)
               /\ Len(r.calls) = i + 2
               /\ IsCreateCall(r.calls[i + 1])
               /\ r.calls[i + 1].returncode = 0
               /\ IsExecCall(r.calls[i + 2])

(***************************************************************************)
(* C16: when git rev-parse --git-dir did not succeed, by a non-zero status *)
(* or because git could not be launched, the launch has not been aborted:  *)
(* the workspace is the invocation directory and the invocation is at, or  *)
(* past, the existence check.                                              *)
(***************************************************************************)
IsRevParseCall(c) == c.cmd = rev_parse_cmd

LookupFailedAt(r, i) ==
    /\ IsRevParseCall(r.calls[i])
    /\ \/ r.calls[i].result = "enoent"
       \/ r.calls[i].result = "exit" /\ r.calls[i].returncode # 0

C16_VcsDetectionNeverAborts ==
    \A p \in Procs :
        LET r == inv[p] IN
        \A i \in DOMAIN r.calls :
            LookupFailedAt(r, i) =>
                /\ r.work_dir = r.current_dir
                /\ NumCalls(r, IsWorktreeAddCall) = 0
                /\ \/ r.pc = "container_exists" /\ Len(r.calls) = i
                   \/ Len(r.calls) > i /\ IsExistsCall(r.calls[i + 1])

(***************************************************************************)
(* C17: the runtime calls of one invocation are, in this order, one        *)
(* existence check, at most one create and at most one exec: nothing       *)
(* precedes the existence check, and an invocation that got past the       *)
(* existence check has issued it itself, exactly once, whatever earlier    *)
(* invocations found out about the same name.                              *)
(***************************************************************************)
IsRuntimeCall(c) == c.cmd[1] = container_binary

RuntimeCalls(r) == SelectSeq(r.calls, IsRuntimeCall)

C17_RuntimeCallOrder ==
    \A p \in Procs :
        LET r == inv[p]
            rc == RuntimeCalls(r)
        IN  /\ Len(rc) <= 3
            /\ NumCalls(r, IsExistsCall) <= 1
            /\ NumCalls(r, IsCreateCall) <= 1
            /\ NumCalls(r, IsExecCall) <= 1
            /\ Len(rc) >= 1 => IsExistsCall(rc[1])
            /\ Len(rc) = 3 => IsCreateCall(rc[2]) /\ IsExecCall(rc[3])
            /\ r.pc \in {"create_container", "execute_in_container"} =>
                   NumCalls(r, IsExistsCall) = 1
            /\ r.pc \in {"is_git_repository", "create_git_worktree",
                         "worktree_add", "container_exists"} => Len(rc) = 0
            \* the runtime calls come last, after the git calls
            /\ \A i, j \in DOMAIN r.calls :
                   (IsRuntimeCall(r.calls[i]) /\ ~IsRuntimeCall(r.calls[j])) => j < i

\* check, create and exec in one invocation, and another invocation of the
\* same session that issued a check of its own and found the container
C17_Witness ==
    \E p, q \in Procs :
        /\ p # q
        /\ inv[p].session_id = inv[q].session_id
        /\ Len(RuntimeCalls(inv[p])) = 3
        /\ FoundContainer(inv[q])
        /\ Len(RuntimeCalls(inv[q])) = 2

(***************************************************************************)
(* C18: no step of the launcher removes or alters a container, a worktree, *)
(* a directory or a branch: each of these sets only grows or stays as it   *)
(* is, in successful and in failed invocations alike.                      *)
(***************************************************************************)
C18_NothingRemoved ==
    [][/\ containers \subseteq containers'
       /\ ContainerNames \subseteq {c.name : c \in containers'}
       /\ Cardinality(containers') = Cardinality({c.name : c \in containers'})
       /\ worktrees \subseteq worktrees'
       /\ paths \subseteq paths'
       /\ branches \subseteq branches']_vars

\* a container and a worktree outlived one invocation that succeeded and
\* one that failed
C18_Witness ==
    /\ containers # {}
    /\ worktrees # {}
    /\ \E p, q \in Procs :
           /\ inv[p].pc = "exited" /\ inv[p].exit = Some(0)
           /\ NumCalls(inv[p], IsExecCall) = 1
           /\ inv[q].pc = "exited" /\ inv[q].exit = Some(1)
           /\ inv[p].work_dir \in {w.path : w \in worktrees}
           /\ inv[p].container_name \in ContainerNames

(***************************************************************************)
(* C19: of two invocations that run at the same time with distinct         *)
(* session ids, neither names the other's container in a runtime call,     *)
(* and no step of one changes what the runtime holds under the other's     *)
(* container name or what git holds for the other's worktree, so the       *)
(* outcome of the other's check and create is its own; an invocation       *)
(* whose create succeeded goes on to exec.                                 *)
(***************************************************************************)
Running(r) == r.pc \notin {"idle", "exited"}

TargetOf(c) ==
    IF IsExistsCall(c) THEN ExistsTarget(c)
    ELSE IF IsCreateCall(c) THEN CreateTarget(c)
    ELSE ExecTarget(c)

RuntimeTargets(r) == {TargetOf(c) : c \in Range(RuntimeCalls(r))}

Held(cs, name) == {c \in cs : c.name = name}

C19_DistinctSessionsDoNotInterfere ==
    [][\A p, q \in Procs :
          (/\ p # q
           /\ Running(inv[p])
           /\ inv'[q] # inv[q]
           /\ inv'[q].pc # "idle"
           /\ inv'[q].session_id # inv[p].session_id) =>
              /\ inv'[p] = inv[p]
              /\ inv'[q].container_name # inv[p].container_name
              /\ inv[p].container_name \notin RuntimeTargets(inv'[q])
              /\ RuntimeTargets(inv[p]) \cap RuntimeTargets(inv'[q]) = {}
              /\ Held(containers', inv[p].container_name)
                     = Held(containers, inv[p].container_name)
              /\ (worktree_dir_of(inv[p].session_id) \in paths')
                     = (worktree_dir_of(inv[p].session_id) \in paths)
              /\ (<<inv[p].current_dir, inv[p].session_id>> \in branches')
                     = (<<inv[p].current_dir, inv[p].session_id>> \in branches)
              /\ (inv[q].pc = "create_container"
                      /\ inv[q].container_name \notin ContainerNames
                      /\ inv'[q].calls[Len(inv'[q].calls)].returncode = 0)
                     => inv'[q].pc = "execute_in_container"]_vars

\* both checked, both created, both about to exec, side by side
C19_Witness ==
    /\ inv[1].pc = "execute_in_container"
    /\ inv[2].pc = "execute_in_container"
    /\ inv[1].session_id # inv[2].session_id
    /\ NumCalls(inv[1], IsCreateCall) = 1
    /\ NumCalls(inv[2], IsCreateCall) = 1
    /\ {inv[1].container_name, inv[2].container_name} \subseteq ContainerNames

(***************************************************************************)
(* C20: nothing separates the existence check from the create. An          *)
(* invocation at its existence check or at its create is never held back   *)
(* by another one, and the check is answered from what the runtime holds   *)
(* at that moment, so two invocations with one session id can both be      *)
(* told "absent" and both issue a create for the same name; the runtime    *)
(* then refuses one of the two, and that invocation fails.                 *)
(***************************************************************************)
\* both were told "absent" and both issued a create for the same name
BothCreated(r1, r2) ==
    /\ r1.session_id = r2.session_id
    /\ \E i \in DOMAIN r1.calls, j \in DOMAIN r2.calls :
           /\ ReportedAbsentAt(r1, i) /\ ReportedAbsentAt(r2, j)
           /\ Len(r1.calls) > i /\ Len(r2.calls) > j
           /\ IsCreateCall(r1.calls[i + 1]) /\ IsCreateCall(r2.calls[j + 1])
           /\ CreateTarget(r1.calls[i + 1]) = CreateTarget(r2.calls[j + 1])

CreateSucceeded(r) ==
    \E i \in DOMAIN r.calls :
        /\ IsCreateCall(r.calls[i])
        /\ r.calls[i].result = "exit"
        /\ r.calls[i].returncode = 0

C20_CheckAndCreateNotSeparated ==
    \A p \in Procs :
        /\ inv[p].pc = "container_exists" => ENABLED CheckContainer(p, FALSE)
        /\ inv[p].pc = "create_container" => ENABLED CreateContainer(p, FALSE)
        /\ \A q \in Procs \ {p} :
               BothCreated(inv[p], inv[q]) =>
                   /\ ~(CreateSucceeded(inv[p]) /\ CreateSucceeded(inv[q]))
                   /\ \E l \in {p, q} :
                          /\ inv[l].pc = "exited"
                          /\ inv[l].exit \in {Some(1), Some(130)}

\* the race: two invocations of one session, both told "absent", both
\* creating, the second refused by the runtime
C20_Witness ==
    /\ BothCreated(inv[1], inv[2])
    /\ CreateSucceeded(inv[1]) \/ CreateSucceeded(inv[2])
    /\ \E l \in Procs : Wrote(inv[l], CreateFailedMsg) /\ inv[l].exit = Some(1)

(***************************************************************************)
(* C21: in every create vector the workspace mount has the resolved        *)
(* workspace as source (the invocation directory when it is no git         *)
(* repository, <worktree root>/<session id> when it is) and the            *)
(* invocation directory as target, and the working directory (-w) is the   *)
(* invocation directory.                                                   *)
(***************************************************************************)
\* option a directly followed by value b
Follows(cmd, a, b) ==
    \E i \in 1..(Len(cmd) - 1) : cmd[i] = a /\ cmd[i + 1] = b

Mount(source, target) == source \o ":" \o target \o ":Z"

ResolvedWorkspace(r) ==
    IF r.current_dir \in GitDirs
    THEN git_worktrees_dir \o r.session_id
    ELSE r.current_dir

\* the operands of the -v options of a vector
MountsOf(cmd) == {cmd[i + 1] : i \in {j \in 1..(Len(cmd) - 1) : cmd[j] = "-v"}}

\* the mounts of the agent's own files, which are not workspaces
AgentMounts ==
    {home_dir \o "/.claude.json:/root/.claude.json:Z",
     home_dir \o "/.claude/:/root/.claude/:Z",
     "/root/.claude/settings.json:/root/.claude/settings.json:Z",
     "/bin/claude-hook-pretooluse.sh:/bin/claude-hook-pretooluse.sh:Z"}

C21_WorkspaceMount ==
    \A p \in Procs :
        LET r == inv[p] IN
        \A i \in DOMAIN r.calls :
            IsCreateCall(r.calls[i]) =>
                LET cmd == r.calls[i].cmd IN
                /\ MountsOf(cmd) \ AgentMounts
                       = {Mount(ResolvedWorkspace(r), r.current_dir)}
                /\ Follows(cmd, "-w", r.current_dir)
                /\ Occurrences(cmd, "-w") = 1

\* a create from a git repository: the worktree mounted at the repository's path
C21_Witness ==
    \E p \in Procs :
        LET r == inv[p] IN
        /\ r.current_dir \in GitDirs
        /\ \E i \in DOMAIN r.calls :
               /\ IsCreateCall(r.calls[i])
               /\ r.calls[i].returncode = 0
               /\ ResolvedWorkspace(r) # r.current_dir

(***************************************************************************)
(* C22: a create vector holds the settings-override mount and the          *)
(* pre-tool-use hook mount exactly when the invocation's parsed            *)
(* --dangerously-skip-permissions flag is set: both or neither.            *)
(***************************************************************************)
SettingsMount == "/root/.claude/settings.json:/root/.claude/settings.json:Z"
HookMount == "/bin/claude-hook-pretooluse.sh:/bin/claude-hook-pretooluse.sh:Z"

C22_SkipMountsIffSkipFlag ==
    \A p \in Procs :
        LET r == inv[p] IN
        \A i \in DOMAIN r.calls :
            IsCreateCall(r.calls[i]) =>
                LET cmd == r.calls[i].cmd IN
                /\ Follows(cmd, "-v", SettingsMount)
                       <=> r.args.dangerously_skip_permissions
                /\ Follows(cmd, "-v", HookMount)
                       <=> r.args.dangerously_skip_permissions
                /\ Occurrences(cmd, SettingsMount) <= 1
                /\ Occurrences(cmd, HookMount) <= 1
                /\ Occurrences(cmd, "-v")
                       = (IF r.args.dangerously_skip_permissions THEN 5 ELSE 3)

\* a create with the flag given, among other arguments
C22_Witness ==
    \E p \in Procs :
        LET r == inv[p] IN
        /\ r.args.dangerously_skip_permissions
        /\ Len(r.argv) >= 3
        /\ \E i \in DOMAIN r.calls :
               /\ IsCreateCall(r.calls[i])
               /\ Follows(r.calls[i].cmd, "-v", SettingsMount)
               /\ Follows(r.calls[i].cmd, "-v", HookMount)

(***************************************************************************)
(* C23: a create vector holds --quiet and --log-driver none exactly when   *)
(* DEBUG is not one of true, 1, yes in some letter case: it holds them     *)
(* when DEBUG is unset, empty, false, 0, no, off or anything else.         *)
(***************************************************************************)
TruthyDebug ==
    {"true", "TRUE", "True", "tRuE", "1", "yes", "YES", "Yes", "yEs"}

DebugOn(env) == env.DEBUG # None /\ env.DEBUG[1] \in TruthyDebug

C23_QuietIffNotDebug ==
    \A p \in Procs :
        LET r == inv[p] IN
        \A i \in DOMAIN r.calls :
            IsCreateCall(r.calls[i]) =>
                LET cmd == r.calls[i].cmd IN
                /\ ("--quiet" \in Range(cmd)) <=> ~DebugOn(r.env)
                /\ Follows(cmd, "--log-driver", "none") <=> ~DebugOn(r.env)
                /\ ("--log-driver" \in Range(cmd)) <=> ~DebugOn(r.env)

\* a mixed-case truthy value: created without the quiet flags
C23_Witness ==
    \E p \in Procs :
        LET r == inv[p] IN
        /\ r.env.DEBUG = Some("yEs")
        /\ \E i \in DOMAIN r.calls :
               /\ IsCreateCall(r.calls[i])
               /\ "--quiet" \notin Range(r.calls[i].cmd)

(***************************************************************************)
(* C24: every exec vector is <runtime> exec -i, then -t exactly when       *)
(* standard input is a terminal, then the container name, the agent        *)
(* binary and the forwarded arguments, in this order.                      *)
(***************************************************************************)
C24_ExecVector ==
    \A p \in Procs :
        LET r == inv[p] IN
        \A i \in DOMAIN r.calls :
            IsExecCall(r.calls[i]) =>
                LET cmd == r.calls[i].cmd
                    n == IF r.env.isatty THEN 5 ELSE 4
                IN  /\ Len(cmd) >= n + 1
                    /\ cmd[1] = "podman" /\ cmd[2] = "exec" /\ cmd[3] = "-i"
                    /\ (cmd[4] = "-t") <=> r.env.isatty
                    /\ cmd[n] = r.container_name
                    /\ cmd[n + 1] = "claude"
                    /\ SubSeq(cmd, n + 2, Len(cmd)) = r.claude_args
                    /\ Occurrences(cmd, "-i") = 1
                    /\ Occurrences(cmd, "-t") = (IF r.env.isatty THEN 1 ELSE 0)

\* an exec from a terminal, with arguments to forward
C24_Witness ==
    \E p \in Procs :
        LET r == inv[p] IN
        /\ r.env.isatty
        /\ Len(r.claude_args) >= 2
        /\ \E i \in DOMAIN r.calls :
               IsExecCall(r.calls[i]) /\ r.calls[i].cmd[4] = "-t"

(***************************************************************************)
(* C25: whatever DEBUG and the skip flag are, a create vector is, in this  *)
(* order: run -d --name <name>, the quiet flags if any (--quiet before     *)
(* --log-driver none), the six isolation tokens, the mounts (-v pairs),    *)
(* -w <dir>, the image, and sleep infinity as its last two tokens.         *)
(***************************************************************************)
IsolationFlags ==
    <<"--security-opt", "label=disable", "--security-opt",
      "seccomp=unconfined", "--cap-add=all", "--privileged">>

CreateVectorInOrder(cmd) ==
    LET q == IF "--quiet" \in Range(cmd) \/ "--log-driver" \in Range(cmd)
             THEN 3 ELSE 0
        m == Occurrences(cmd, "-v")
        iso == 5 + q
        mnt == iso + 6
        tail == mnt + 2 * m
    IN  /\ Len(cmd) = tail + 5
        /\ cmd[1] = "podman" /\ cmd[2] = "run"
        /\ cmd[3] = "-d" /\ cmd[4] = "--name"
        /\ q = 3 => SubSeq(cmd, 6, 8) = <<"--quiet", "--log-driver", "none">>
        /\ SubSeq(cmd, iso + 1, iso + 6) = IsolationFlags
        /\ m >= 3
        /\ \A k \in 0..(m - 1) : cmd[mnt + 1 + 2 * k] = "-v"
        /\ cmd[tail + 1] = "-w"
        /\ cmd[tail + 3] = "docker.io/nuhotetotniksvoboden/claudecodeui:latest"
        /\ cmd[tail + 4] = "sleep"
        /\ cmd[tail + 5] = "infinity"

C25_CreateVectorOrder ==
    \A p \in Procs :
        LET r == inv[p] IN
        \A i \in DOMAIN r.calls :
            IsCreateCall(r.calls[i]) =>
                /\ CreateVectorInOrder(r.calls[i].cmd)
                /\ r.calls[i].cmd[5] = r.container_name

\* the longest vector: quiet flags and the two skip mounts
C25_Witness ==
    \E p \in Procs :
        LET r == inv[p] IN
        /\ r.skip_permissions
        /\ \E i \in DOMAIN r.calls :
               /\ IsCreateCall(r.calls[i])
               /\ Occurrences(r.calls[i].cmd, "-v") = 5
               /\ "--quiet" \in Range(r.calls[i].cmd)

(***************************************************************************)
(* C26: session resolution takes exactly one of three branches: the value  *)
(* of --resume when one was supplied, also when --session-id was supplied  *)
(* with it; otherwise the value of --session-id when one was supplied;     *)
(* otherwise a generated id; and in each branch the container name is      *)
(* "claude-session-" + session id.                                         *)
(***************************************************************************)
C26_ResolutionBranches ==
    \A p \in Procs :
        LET r == inv[p] IN
        (r.pc # "idle" /\ ~r.args.error) =>
            /\ r.args.resume # None =>
                   r.session_id = r.args.resume[1] /\ ~r.add_session_id
            /\ (r.args.resume = None /\ r.args.session_id # None) =>
                   r.session_id = r.args.session_id[1] /\ ~r.add_session_id
            /\ (r.args.resume = None /\ r.args.session_id = None) =>
                   r.session_id \in Uuids /\ r.add_session_id
            /\ r.container_name = "claude-session-" \o r.session_id

(***************************************************************************)
(* C27: every invocation that started ends, and on its way from the        *)
(* existence check it moves only check -> exec (container found) or        *)
(* check -> create -> exec, or fails; an invocation that ended after the   *)
(* exec child returned carries the child's exit code.                      *)
(***************************************************************************)
C27_Transitions ==
    \A p \in Procs :
        LET r == inv[p]
            r2 == inv'[p]
        IN  r2 # r =>
              /\ r.pc = "container_exists" =>
                     \/ r2.pc = "execute_in_container" /\ FoundContainer(r2)
                     \/ r2.pc = "create_container" /\ ~FoundContainer(r2)
                     \/ r2.pc = "exited" /\ r2.exit # None /\ r2.exit[1] # 0
              /\ r.pc = "create_container" =>
                     \/ r2.pc = "execute_in_container" /\ CreateSucceeded(r2)
                     \/ r2.pc = "exited" /\ r2.exit # None /\ r2.exit[1] # 0
              /\ r.pc = "execute_in_container" => r2.pc = "exited"
              /\ r2.pc = "execute_in_container" =>
                     r.pc \in {"container_exists", "create_container"}
              /\ r2.pc = "create_container" => r.pc = "container_exists"

C27_DoneCarriesChildCode ==
    \A p \in Procs :
        LET r == inv[p] IN
        (r.pc = "exited" /\ Len(r.calls) > 0
             /\ IsExecCall(r.calls[Len(r.calls)])
             /\ r.calls[Len(r.calls)].result = "exit")
            => r.exit = Some(r.calls[Len(r.calls)].returncode)

C27_Terminates ==
    \A p \in Procs : (inv[p].pc # "idle") ~> (inv[p].pc = "exited")

C27_EveryInvocationEnds ==
    /\ C27_Terminates
    /\ [][C27_Transitions]_vars
    /\ []C27_DoneCarriesChildCode

(***************************************************************************)
(* C28: an invocation that issued exec had resolved its workspace without  *)
(* error (no git call of its own failed, and in a git repository the       *)
(* workspace is an existing worktree directory), and before the exec       *)
(* either its existence check returned 0 or its create returned 0.         *)
(***************************************************************************)
IsGitCall(c) == c.cmd[1] = "git"

Succeeded(c) == c.result = "exit" /\ c.returncode = 0

C28_ExecOnlyAfterSuccess ==
    \A p \in Procs :
        LET r == inv[p] IN
        \A i \in DOMAIN r.calls :
            IsExecCall(r.calls[i]) =>
                /\ r.work_dir = ResolvedWorkspace(r)
                /\ r.current_dir \in GitDirs => r.work_dir \in paths
                /\ \A j \in 1..(i - 1) :
                       /\ r.calls[j].result = "exit"
                       /\ IsWorktreeAddCall(r.calls[j]) => Succeeded(r.calls[j])
                       /\ IsCreateCall(r.calls[j]) => Succeeded(r.calls[j])
                /\ \E j \in 1..(i - 1) :
                       /\ Succeeded(r.calls[j])
                       /\ IsExistsCall(r.calls[j]) \/ IsCreateCall(r.calls[j])
                /\ \E j \in 1..(i - 1) : IsExistsCall(r.calls[j])

\* an exec after a worktree add, an "absent" and a create that all succeeded
C28_Witness ==
    \E p \in Procs :
        LET r == inv[p] IN
        /\ Len(r.calls) = 5
        /\ IsExecCall(r.calls[5])
        /\ IsWorktreeAddCall(r.calls[2]) /\ Succeeded(r.calls[2])
        /\ ReportedAbsentAt(r, 3)
        /\ IsCreateCall(r.calls[4]) /\ Succeeded(r.calls[4])

(***************************************************************************)
(* C29: an invocation whose container exists but is stopped issues no      *)
(* create and nothing else to recover: its only call after the existence   *)
(* check is the exec, and it exits with the exit code of that exec.        *)
(***************************************************************************)
Stopped(name) == \E c \in containers : c.name = name /\ ~c.running

C29_StoppedContainerNotRecovered ==
    \A p \in Procs :
        LET r == inv[p]
            n == Len(r.calls)
        IN  (r.pc = "exited" /\ FoundContainer(r) /\ Stopped(r.container_name)) =>
                /\ NumCalls(r, IsCreateCall) = 0
                /\ NumCalls(r, IsExecCall) = 1
                /\ IsExecCall(r.calls[n])
                /\ IsExistsCall(r.calls[n - 1])
                /\ r.calls[n].returncode # 0
                /\ r.exit = Some(r.calls[n].returncode)

(***************************************************************************)
(* C30: in a git repository the workspace is provisioned before the        *)
(* existence check: when the check is issued every git call lies before    *)
(* it and the worktree of the session exists on disk, also when the check  *)
(* then finds the container, so that a first invocation with session id S  *)
(* against an existing container has created the worktree for S.           *)
(***************************************************************************)
C30_ProvisionedBeforeCheck ==
    \A p \in Procs :
        LET r == inv[p] IN
        \A i \in DOMAIN r.calls :
            (IsExistsCall(r.calls[i]) /\ r.current_dir \in GitDirs) =>
                /\ \A j \in DOMAIN r.calls : IsGitCall(r.calls[j]) => j < i
                /\ r.work_dir = git_worktrees_dir \o r.session_id
                /\ r.work_dir \in paths
                /\ \E w \in worktrees :
                       w.path = r.work_dir /\ w.branch = r.session_id
                /\ \E j \in 1..(i - 1) :
                       IsRevParseCall(r.calls[j]) /\ Succeeded(r.calls[j])
                /\ \A j \in DOMAIN r.calls :
                       IsWorktreeAddCall(r.calls[j]) => Succeeded(r.calls[j])

\* the container was there, the worktree was not: created first, then found
C30_Witness ==
    \E p \in Procs :
        LET r == inv[p] IN
        /\ r.current_dir \in GitDirs
        /\ FoundContainer(r)
        /\ \E j \in DOMAIN r.calls :
               IsWorktreeAddCall(r.calls[j]) /\ Succeeded(r.calls[j])
        /\ Wrote(r, CreatedWorktreeMsg(r.work_dir))

(***************************************************************************)
(* C31: every session id has a container name, and two invocations have    *)
(* the same container name exactly when they have the same session id;     *)
(* every container the runtime holds is named after a session id.          *)
(***************************************************************************)
Resolved(r) == r.pc # "idle" /\ ~r.args.error

SessionIds == (PlainTokens \cup Uuids) \ {""}

\* the mapping over every id an invocation can resolve to
NamesArePrefixedIds ==
    \A a, b \in SessionIds :
        /\ container_name_of(a) = "claude-session-" \o a
        /\ (container_name_of(a) = container_name_of(b)) <=> (a = b)

SessionNames == {container_name_of(a) : a \in SessionIds}

C31_NameMappingInjective ==
    /\ NamesArePrefixedIds
    /\ \A p, q \in Procs :
           (Resolved(inv[p]) /\ Resolved(inv[q])) =>
               /\ inv[p].session_id \in SessionIds
               /\ inv[p].container_name = container_name_of(inv[p].session_id)
               /\ (inv[p].container_name = inv[q].container_name)
                      <=> (inv[p].session_id = inv[q].session_id)
    /\ \A c \in containers : c.name \in SessionNames

\* two invocations side by side, one with a given id and one with a
\* generated id, each with a container of its own name
C31_Witness ==
    /\ Resolved(inv[1]) /\ Resolved(inv[2])
    /\ inv[1].session_id # inv[2].session_id
    /\ inv[1].add_session_id /\ ~inv[2].add_session_id
    /\ {inv[1].container_name, inv[2].container_name} \subseteq ContainerNames

(***************************************************************************)
(* C32: whatever DEBUG and the skip flag are, a create vector asks for     *)
(* detached mode, names the container after the session, carries the two   *)
(* --security-opt options label=disable and seccomp=unconfined and no      *)
(* third, --cap-add=all and --privileged, mounts the agent's               *)
(* configuration file and directory, and ends with the image and sleep     *)
(* infinity.                                                               *)
(***************************************************************************)
C32_CreateVectorContents ==
    \A p \in Procs :
        LET r == inv[p] IN
        \A i \in DOMAIN r.calls :
            IsCreateCall(r.calls[i]) =>
                LET cmd == r.calls[i].cmd
                    n == Len(cmd)
                IN  /\ cmd[1] = "podman" /\ cmd[2] = "run"
                    /\ Occurrences(cmd, "-d") = 1
                    /\ Follows(cmd, "--name", "claude-session-" \o r.session_id)
                    /\ Occurrences(cmd, "--name") = 1
                    /\ Occurrences(cmd, "--security-opt") = 2
                    /\ Follows(cmd, "--security-opt", "label=disable")
                    /\ Follows(cmd, "--security-opt", "seccomp=unconfined")
                    /\ Occurrences(cmd, "--cap-add=all") = 1
                    /\ Occurrences(cmd, "--privileged") = 1
                    /\ Follows(cmd, "-v",
                               "/home/user/.claude.json:/root/.claude.json:Z")
                    /\ Follows(cmd, "-v", "/home/user/.claude/:/root/.claude/:Z")
                    /\ SubSeq(cmd, n - 2, n) =
                           <<"docker.io/nuhotetotniksvoboden/claudecodeui:latest",
                             "sleep", "infinity">>

\* a create in debug mode with the skip flag given
C32_Witness ==
    \E p \in Procs :
        LET r == inv[p] IN
        /\ r.skip_permissions
        /\ DebugOn(r.env)
        /\ \E i \in DOMAIN r.calls :
               IsCreateCall(r.calls[i]) /\ Succeeded(r.calls[i])

(***************************************************************************)
(* C33: when an invocation with the skip flag set issues exec, the         *)
(* container it names was created with the settings-override and hook      *)
(* mounts, also when the container existed before the invocation.          *)
(***************************************************************************)
C33_SkipMountsInExecContainer ==
    \A p \in Procs :
        LET r == inv[p] IN
        (r.skip_permissions /\ NumCalls(r, IsExecCall) > 0) =>
            \A c \in containers :
                c.name = r.container_name => c.skip_permissions

(***************************************************************************)
(* C34: when an invocation issues exec, the container it names mounts the  *)
(* workspace this invocation resolved at this invocation's directory,      *)
(* also when an earlier invocation with the same session id created the    *)
(* container from another directory.                                       *)
(***************************************************************************)
C34_MountedWorkspaceIsResolved ==
    \A p \in Procs :
        LET r == inv[p] IN
        NumCalls(r, IsExecCall) > 0 =>
            \A c \in containers :
                c.name = r.container_name =>
                    /\ c.work_dir = r.work_dir
                    /\ c.target_dir = r.current_dir

(***************************************************************************)
(* C35: when the workspace of an invocation in a git repository is         *)
(* <worktree root>/<session id>, that path is a worktree of the            *)
(* invocation's own repository on the branch named after the session id,   *)
(* also when the path existed before the invocation.                       *)
(***************************************************************************)
C35_WorkspaceIsOwnWorktree ==
    \A p \in Procs :
        LET r == inv[p] IN
        (r.current_dir \in GitDirs
             /\ r.work_dir = git_worktrees_dir \o r.session_id) =>
            \E w \in worktrees :
                /\ w.path = r.work_dir
                /\ w.repo = r.current_dir
                /\ w.branch = r.session_id

(***************************************************************************)
(* C36: the skip control value is true exactly when at least one token     *)
(* was removed from the forwarded arguments, and the tokens argparse       *)
(* takes for the skip flag (abbreviations included, tokens after "--"      *)
(* excluded) are exactly the tokens the filter removes.                    *)
(***************************************************************************)
\* argparse reads argv[i] as the skip flag
ClassifiedAsSkip(argv, i) ==
    /\ OptionDest(argv[i]) = "dangerously_skip_permissions"
    /\ \A j \in 1..(i - 1) : argv[j] # Separator

\* tokens of argv missing from the forwarded arguments of an exec call
Removed(r, c) ==
    Len(r.argv) + (IF r.add_session_id THEN 2 ELSE 0) - Len(Forwarded(c))

C36_ClassifierAgreesWithFilter ==
    \A p \in Procs :
        LET r == inv[p] IN
        \A i \in DOMAIN r.calls :
            IsExecCall(r.calls[i]) =>
                /\ r.skip_permissions <=> (Removed(r, r.calls[i]) >= 1)
                /\ Removed(r, r.calls[i]) =
                       Cardinality({k \in DOMAIN r.argv :
                                        ClassifiedAsSkip(r.argv, k)})

(***************************************************************************)
(* C37: in every exec vector, each --session-id or --resume in the         *)
(* forwarded arguments is followed by the session id the container name    *)
(* of that exec is derived from.                                           *)
(***************************************************************************)
\* fwd[k], fwd[k + 1] is an id option with its value, before any "--"
IsIdPair(fwd, k) ==
    /\ fwd[k] \in {SessionIdFlag, ResumeFlag}
    /\ fwd[k + 1] \in PlainTokens
    /\ \A j \in 1..(k - 1) : fwd[j] # Separator

C37_ForwardedIdsNameTheContainer ==
    \A p \in Procs :
        LET r == inv[p] IN
        \A i \in DOMAIN r.calls :
            IsExecCall(r.calls[i]) =>
                LET fwd == Forwarded(r.calls[i]) IN
                \A k \in 1..(Len(fwd) - 1) :
                    IsIdPair(fwd, k) =>
                        ExecTarget(r.calls[i]) = "claude-session-" \o fwd[k + 1]

(***************************************************************************)
(* C38: an invocation that failed before exec, with exit code 1, changed   *)
(* nothing outside itself: it added no worktree directory, no branch and   *)
(* no container. The launcher adds a worktree and its branch exactly by a  *)
(* git worktree add that succeeds and a container exactly by a create      *)
(* that succeeds, and removes nothing, so this is read off the calls the   *)
(* invocation issued.                                                      *)
(***************************************************************************)
FailedBeforeExec(r) ==
    /\ r.pc = "exited"
    /\ r.exit = Some(1)
    /\ NumCalls(r, IsExecCall) = 0

C38_FailedLaunchChangesNothing ==
    \A p \in Procs :
        LET r == inv[p] IN
        FailedBeforeExec(r) =>
            \A i \in DOMAIN r.calls :
                (IsWorktreeAddCall(r.calls[i]) \/ IsCreateCall(r.calls[i]))
                    => ~Succeeded(r.calls[i])

(***************************************************************************)
(* C39: an invocation writes "Container <name> already exists, reusing     *)
(* it" only if its existence check reported the container present; an      *)
(* invocation that created the container does not write it.                *)
(***************************************************************************)
C39_ReuseNoticeOnlyWhenFound ==
    \A p \in Procs :
        LET r == inv[p] IN
        Wrote(r, "Container " \o r.container_name \o " already exists, reusing it")
            => /\ FoundContainer(r)
               /\ ~CreateSucceeded(r)

====
